---- MODULE Spec2Model ----
(***************************************************************************)
(* SyncWatch (src/sync_engine.py): the scheduler loop, the sweep over the  *)
(* configured apartments, one apartment's cycle, the snapshot file and the *)
(* conflict detection, as a state machine.                                 *)
(*                                                                         *)
(* Spec     : the scheduler thread (sync_loop) and the feeds it reads.     *)
(* FairSpec : Spec with the scheduler thread weakly fair.                  *)
(* PureSpec : find_conflicts and the double-booking alerts applied to      *)
(*            booking lists drawn from bounded sets.                       *)
(* DiffSpec : one call of sync_apartment on a drawn prior snapshot and     *)
(*            drawn feed contents.                                         *)
(* MirrorSpec : sync_to_google_calendar, call by call, on a drawn calendar *)
(*            and a drawn booking list, run up to MaxRuns times.           *)
(* CycleSpec : one call of sync_apartment call by call: the fetches, the   *)
(*            artifact files, the two mirror runs, every alert with its    *)
(*            deliveries, the return.                                      *)
(* ArtifactSpec : save_ical_files in the scheduler thread and the GET      *)
(*            handler of the web server thread on the same files.          *)
(***************************************************************************)
EXTENDS Integers, Sequences, FiniteSets, TLC

VARIABLES
    feed,        \* what each feed URL serves: [apartment -> [platform -> list of bookings]]
    STATE_FILE,  \* content of syncwatch_state.json
    pc,          \* position of the scheduler thread
    i,           \* run_sync: index of `apt` in APARTMENTS
    state,       \* run_sync: the local dict `state`
    ab, bk,      \* sync_apartment: the two fetched booking lists
    alerts,      \* messages handed to the notifiers by the cycle in progress (or the last one)
    sweepEnd,    \* how the last sweep ended
    cycled,      \* apartments whose sync_apartment was entered in this sweep
    fileAtStart, \* STATE_FILE as it was when this sweep started
    newCount,    \* new-booking alerts per booking since it last entered its feed
    lastCycle,   \* per apartment: inputs and double-booking alerts of its cycle in this sweep
    savedCycle,  \* per apartment: lastCycle of the cycle whose snapshot is in STATE_FILE
    alertedSaved,\* per apartment: conflict pairs alerted by a cycle whose snapshot was saved
    failed,      \* the apartment whose cycle raised last, and its stored record at that time
    in_ab, in_bk,\* PureSpec: the drawn booking lists
    out,         \* PureSpec: the results
    ppc,         \* PureSpec: position
    prior_fetch, \* DiffSpec: the lists fetched by the cycle that wrote the stored snapshot
    apt_state,   \* DiffSpec: the `state` argument of sync_apartment
    serving,     \* DiffSpec: what the two feed URLs of the apartment serve
    fetched,     \* DiffSpec: the outcomes of the two fetch_ical calls
    notified,    \* DiffSpec: the messages handed to the notifiers, in order
    returned,    \* DiffSpec: <<the dict sync_apartment returned>>, <<>> before
    dpc,         \* DiffSpec: position in sync_apartment
    calendar,    \* MirrorSpec: the events of the Mirror Calendar `cal_id`
    original,    \* MirrorSpec: the calendar before the first run
    all_bookings,\* MirrorSpec: the argument `all_bookings`
    gcal_service,\* MirrorSpec: whether _gcal_service holds a service
    mpc,         \* MirrorSpec: position in sync_to_google_calendar
    page_token,  \* MirrorSpec: `page_token`, 0 for None
    items,       \* MirrorSpec: the items of `result` not yet looked at
    next_booking,\* MirrorSpec: index in all_bookings of the next `b`
    next_id,     \* MirrorSpec: the id the service gives the next inserted event
    n_deletes,   \* MirrorSpec: delete calls that succeeded in this run
    n_inserts,   \* MirrorSpec: insert calls that succeeded in this run
    existing,    \* MirrorSpec: the calendar when this run started
    runs,        \* MirrorSpec: number of the run
    prev_visible,\* MirrorSpec: <<tagged events after the previous run>> if it completed
    mirror_cals, \* CycleSpec: the events of the apartment's two Mirror Calendars
    mirror_ends, \* CycleSpec: how the sync_to_google_calendar calls of the cycle ended
    notifiers,   \* CycleSpec: which notifier channels are configured
    attempts,    \* CycleSpec: the deliveries attempted, in order
    pending,     \* CycleSpec: the alert() calls the cycle has still to make
    artifact,    \* ArtifactSpec: the content of each generated .ics file
    wpc,         \* ArtifactSpec: position of the scheduler thread in save_ical_files
    wgen,        \* ArtifactSpec: number of the sweep that writes
    rpc,         \* ArtifactSpec: position of the server thread in do_GET
    rfile,       \* ArtifactSpec: the file the request is for
    response     \* ArtifactSpec: what the handler has sent

vars == <<feed, STATE_FILE, pc, i, state, ab, bk, alerts, sweepEnd, cycled,
          fileAtStart, newCount, lastCycle, savedCycle, alertedSaved, failed,
          in_ab, in_bk, out, ppc,
          prior_fetch, apt_state, serving, fetched, notified, returned, dpc,
          calendar, original, all_bookings, gcal_service, mpc, page_token, items,
          next_booking, next_id, n_deletes, n_inserts, existing, runs, prev_visible,
          mirror_cals, mirror_ends, notifiers, attempts, pending,
          artifact, wpc, wgen, rpc, rfile, response>>

schedVars == <<STATE_FILE, pc, i, state, ab, bk, alerts, sweepEnd, cycled,
               fileAtStart, newCount, lastCycle, savedCycle, alertedSaved, failed>>

diffVars == <<prior_fetch, apt_state, serving, fetched, notified, returned, dpc>>

mirrorVars == <<calendar, original, all_bookings, gcal_service, mpc, page_token, items,
                next_booking, next_id, n_deletes, n_inserts, existing, runs, prev_visible>>

cycleVars == <<mirror_cals, mirror_ends, notifiers, attempts, pending>>

artifactVars == <<artifact, wpc, wgen, rpc, rfile, response>>

\* Everything the scheduler thread of Spec leaves alone.
pureVars == <<in_ab, in_bk, out, ppc, diffVars, mirrorVars, cycleVars, artifactVars>>

----------------------------------------------------------------------------
(* Helpers *)

Range(s) == {s[k] : k \in 1..Len(s)}

Uids(list) == [k \in 1..Len(list) |-> list[k].uid]

EmptyDict == [k \in {} |-> k]

----------------------------------------------------------------------------
(* Configuration *)

\* The first two entries of APARTMENTS, by name.
APARTMENTS == <<"Szasz 6", "Szasz 1">>

AptNames == Range(APARTMENTS)

Platforms == {"Airbnb", "Booking.com"}

\* Bookings the feeds of the model can serve; dates are day numbers.
\* a1 and b1 overlap.
a1 == [uid |-> "a1", summary |-> "Reserved", start |-> 1, end |-> 3]
b1 == [uid |-> "b1", summary |-> "CLOSED", start |-> 2, end |-> 4]

FeedChoices(name, platform) ==
    IF platform = "Airbnb" THEN {<<>>, <<a1>>}
    ELSE IF name = APARTMENTS[1] THEN {<<>>, <<b1>>}
    ELSE {<<>>}

FeedUids(name, platform) ==
    UNION {Range(Uids(l)) : l \in FeedChoices(name, platform)}

----------------------------------------------------------------------------
(* Snapshot file *)

NoFile == [kind |-> "absent", data |-> EmptyDict]
Partial == [kind |-> "partial", data |-> EmptyDict]

\* json.dumps(state, indent=2, default=str) written completely.
dumps(st) == [kind |-> "json", data |-> st]

\* load_state: {} when the file does not exist, json.loads of its text
\* otherwise; json.loads raises on a truncated or partly written text.
load_state_raises(file) == file.kind = "partial"

load_state(file) == IF file.kind = "json" THEN file.data ELSE EmptyDict

----------------------------------------------------------------------------
(* Conflict detection *)

\* Closed intervals: <= where the code has <.
dates_overlap_closed(a_start, a_end, b_start, b_end) ==
    a_start <= b_end /\ b_start <= a_end

dates_overlap(a_start, a_end, b_start, b_end) ==
    a_start < b_end /\ b_start < a_end

\* [{"airbnb": a, "booking": b} for a in ab for b in bk if dates_overlap(...)]
RECURSIVE Pairs(_, _, _, _)
Pairs(la, lb, x, y) ==
    IF x > Len(la) THEN <<>>
    ELSE IF y > Len(lb) THEN Pairs(la, lb, x + 1, 1)
    ELSE (IF dates_overlap(la[x].start, la[x].end, lb[y].start, lb[y].end)
          THEN <<[airbnb |-> la[x], booking |-> lb[y]]>>
          ELSE <<>>) \o Pairs(la, lb, x, y + 1)

\* `for a, b in zip(ab, bk)` where the code has the two nested loops.
find_conflicts_zip(la, lb) ==
    LET n == IF Len(la) < Len(lb) THEN Len(la) ELSE Len(lb)
        Hit(k) == dates_overlap(la[k].start, la[k].end, lb[k].start, lb[k].end)
        hits == SelectSeq([k \in 1..n |-> k], Hit)
    IN [k \in 1..Len(hits) |-> [airbnb |-> la[hits[k]], booking |-> lb[hits[k]]]]

find_conflicts(la, lb) == Pairs(la, lb, 1, 1)

----------------------------------------------------------------------------
(* fetch_ical *)

\* k events were appended to `bookings` when the exception was raised:
\* none for a network or parse error, fewer than all for an error raised
\* while the events are walked.
FailPoints(served) == 0..(IF Len(served) = 0 THEN 0 ELSE Len(served) - 1)

Outcomes(served) ==
    {[failed |-> FALSE, bookings |-> served]}
    \cup {[failed |-> TRUE, bookings |-> SubSeq(served, 1, k)] : k \in FailPoints(served)}

BrokenAlerts(platform, outcome) ==
    IF outcome.failed THEN <<[kind |-> "broken", platform |-> platform]>> ELSE <<>>

----------------------------------------------------------------------------
(* sync_apartment, lines 285-316 *)

\* prev = state.get(name, {}) and the three prev.get(..., [])
Prev(st, name) ==
    IF name \in DOMAIN st THEN st[name]
    ELSE [airbnb_uids |-> <<>>, booking_uids |-> <<>>, known_conflicts |-> <<>>]

\* `for uid in {b["uid"] for b in ab} - prev_ab`: one per new uid where
\* the code has one per booking.
NewBookingsPerUid(list, prev_uids) ==
    LET Keep(k) == /\ list[k].uid \notin prev_uids
                   /\ \A j \in 1..(k - 1) : list[j].uid # list[k].uid
        kept == SelectSeq([k \in 1..Len(list) |-> k], Keep)
    IN [k \in 1..Len(kept) |-> list[kept[k]]]

NewBookings(list, prev_uids) ==
    LET IsNew(b) == b.uid \notin prev_uids IN SelectSeq(list, IsNew)

\* `^` (symmetric difference) where the code has `-`.
CancelledSymmetric(prev_uids, list) ==
    (prev_uids \ Range(Uids(list))) \cup (Range(Uids(list)) \ prev_uids)

Cancelled(prev_uids, list) == prev_uids \ Range(Uids(list))

ConflictKey(c) == c.airbnb.uid \o "_" \o c.booking.uid

\* Lines 306-309 without the `key not in known` test.
DoubleBookingsUnfiltered(conflicts, known) == conflicts

DoubleBookings(conflicts, known) ==
    LET Unknown(c) == ConflictKey(c) \notin Range(known) IN SelectSeq(conflicts, Unknown)

ConflictKeys(conflicts) == [k \in 1..Len(conflicts) |-> ConflictKey(conflicts[k])]

\* The dict returned by sync_apartment.  last_checked is the time of the
\* call as a string, which no code reads: one value stands for all.
Snapshot(la, lb, conflicts) ==
    [airbnb_uids |-> Uids(la), booking_uids |-> Uids(lb),
     known_conflicts |-> ConflictKeys(conflicts), last_checked |-> "now"]

SetToSeq(S) ==
    CHOOSE s \in [1..Cardinality(S) -> S] : Range(s) = S

NewAlerts(platform, list, prev_uids) ==
    LET nb == NewBookings(list, prev_uids)
    IN [k \in 1..Len(nb) |-> [kind |-> "new", platform |-> platform, uid |-> nb[k].uid]]

CancelAlerts(platform, prev_uids, list) ==
    LET gone == SetToSeq(Cancelled(prev_uids, list))
    IN [k \in 1..Len(gone) |-> [kind |-> "cancel", platform |-> platform, uid |-> gone[k]]]

DoubleAlerts(conflicts, known) ==
    LET db == DoubleBookings(conflicts, known)
    IN [k \in 1..Len(db) |-> [kind |-> "double", airbnb |-> db[k].airbnb, booking |-> db[k].booking]]

\* Every alert() call of lines 290-309, in order.
CycleAlerts(la, lb, prev) ==
    NewAlerts("Airbnb", la, Range(prev.airbnb_uids))
    \o NewAlerts("Booking.com", lb, Range(prev.booking_uids))
    \o CancelAlerts("Airbnb", Range(prev.airbnb_uids), la)
    \o CancelAlerts("Booking.com", Range(prev.booking_uids), lb)
    \o DoubleAlerts(find_conflicts(la, lb), prev.known_conflicts)

----------------------------------------------------------------------------
(* Bookkeeping for the properties *)

Bump(n) == IF n < 2 THEN n + 1 ELSE n

NoCycle == [ran |-> FALSE, ab |-> <<>>, bk |-> <<>>, known |-> <<>>, doubles |-> <<>>]

NoFailed == [name |-> "", phase |-> "none", record |-> [kind |-> "absent", record |-> <<>>]]

\* What a dict holds under a key: <<value>>, or <<>> when the key is missing.
DictRecord(st, name) == IF name \in DOMAIN st THEN <<st[name]>> ELSE <<>>

\* What the snapshot file holds for an apartment.
FileRecord(file, name) == [kind |-> file.kind, record |-> DictRecord(file.data, name)]

NewUids(sent, platform) ==
    {sent[k].uid : k \in {j \in 1..Len(sent) : sent[j].kind = "new" /\ sent[j].platform = platform}}

UidPair(c) == <<c.airbnb.uid, c.booking.uid>>

----------------------------------------------------------------------------
(* Initial state *)

SchedInit ==
    /\ STATE_FILE = NoFile
    /\ pc = "loop"
    /\ i = 1
    /\ state = EmptyDict
    /\ ab = <<>>
    /\ bk = <<>>
    /\ alerts = <<>>
    /\ sweepEnd = "none"
    /\ cycled = {}
    /\ fileAtStart = NoFile
    /\ newCount = [n \in AptNames |-> [p \in Platforms |-> [u \in FeedUids(n, p) |-> 0]]]
    /\ lastCycle = [n \in AptNames |-> NoCycle]
    /\ savedCycle = [n \in AptNames |-> NoCycle]
    /\ alertedSaved = [n \in AptNames |-> {}]
    /\ failed = NoFailed

PureIdle ==
    /\ in_ab = <<>>
    /\ in_bk = <<>>
    /\ out = [conflicts |-> <<>>, doubles |-> <<>>]
    /\ ppc = "idle"

NoFetch == [has |-> FALSE, ab |-> <<>>, bk |-> <<>>]

NotFetched == [failed |-> FALSE, bookings |-> <<>>]

DiffIdle ==
    /\ prior_fetch = NoFetch
    /\ apt_state = EmptyDict
    /\ serving = [ab |-> <<>>, bk |-> <<>>]
    /\ fetched = [ab |-> NotFetched, bk |-> NotFetched]
    /\ notified = <<>>
    /\ returned = <<>>
    /\ dpc = "idle"

MirrorIdle ==
    /\ calendar = {}
    /\ original = {}
    /\ all_bookings = <<>>
    /\ gcal_service = FALSE
    /\ mpc = "idle"
    /\ page_token = 0
    /\ items = <<>>
    /\ next_booking = 1
    /\ next_id = 1
    /\ n_deletes = 0
    /\ n_inserts = 0
    /\ existing = {}
    /\ runs = 0
    /\ prev_visible = <<>>

CycleIdle ==
    /\ mirror_cals = [airbnb_cal_id |-> {}, google_cal_id |-> {}]
    /\ mirror_ends = <<>>
    /\ notifiers = [telegram |-> FALSE, email |-> FALSE]
    /\ attempts = <<>>
    /\ pending = <<>>

NoResponse == [status |-> 0, size |-> 0, body |-> [gen |-> 0, len |-> 0]]

ArtifactIdle ==
    /\ artifact = [f \in {"for_booking", "for_airbnb"} |-> [exists |-> FALSE, gen |-> 0, len |-> 0]]
    /\ wpc = "idle"
    /\ wgen = 0
    /\ rpc = "idle"
    /\ rfile = ""
    /\ response = NoResponse

Init ==
    /\ feed = [n \in AptNames |-> [p \in Platforms |-> <<>>]]
    /\ SchedInit
    /\ PureIdle
    /\ DiffIdle
    /\ MirrorIdle
    /\ CycleIdle
    /\ ArtifactIdle

----------------------------------------------------------------------------
(* Environment: a feed's content changes.  A feed is read once per sweep,  *)
(* so a change at any moment is a change while the scheduler sleeps.       *)

FeedChange(n, p, l) ==
    /\ pc = "sleep"
    /\ l # feed[n][p]
    /\ feed' = [feed EXCEPT ![n][p] = l]
    /\ newCount' = [newCount EXCEPT ![n][p] =
                      [u \in FeedUids(n, p) |-> IF u \in Range(Uids(l)) THEN @[u] ELSE 0]]
    /\ UNCHANGED <<STATE_FILE, pc, i, state, ab, bk, alerts, sweepEnd, cycled,
                   fileAtStart, lastCycle, savedCycle, alertedSaved, failed>>
    /\ UNCHANGED pureVars

----------------------------------------------------------------------------
(* sync_loop and run_sync *)

\* A sync_loop without the try: the exception ends the thread.
AfterExceptionUncaught == "crashed"

\* Where sync_loop is after run_sync raised: `except Exception` logs the
\* error and the loop body goes on to time.sleep.
AfterException == "ended"

\* A run_sync that saves on the way out of a failed cycle, with an empty
\* record for the apartment that failed.
FileAfterAbortSaving(file, st, name) ==
    dumps((name :> [airbnb_uids |-> <<>>, booking_uids |-> <<>>, known_conflicts |-> <<>>]) @@ st)

\* What the snapshot file holds after the cycle of `name` raised: the
\* exception leaves run_sync before save_state is called, and nothing else
\* writes the file.
FileAfterAbort(file, st, name) == file

\* run_sync, line 322: load_state returns.
run_sync_load ==
    /\ pc = "loop"
    /\ ~load_state_raises(STATE_FILE)
    /\ state' = load_state(STATE_FILE)
    /\ pc' = "for"
    /\ fileAtStart' = STATE_FILE
    /\ failed' = IF failed.phase = "pending" THEN [failed EXCEPT !.phase = "read"] ELSE failed
    /\ UNCHANGED <<feed, STATE_FILE, i, ab, bk, alerts, sweepEnd, cycled, newCount,
                   lastCycle, savedCycle, alertedSaved>>
    /\ UNCHANGED pureVars

\* run_sync, line 322: load_state raises.
run_sync_load_raises ==
    /\ pc = "loop"
    /\ load_state_raises(STATE_FILE)
    /\ pc' = AfterException
    /\ sweepEnd' = "load_raised"
    /\ fileAtStart' = STATE_FILE
    /\ UNCHANGED <<feed, STATE_FILE, i, state, ab, bk, alerts, cycled, newCount,
                   lastCycle, savedCycle, alertedSaved, failed>>
    /\ UNCHANGED pureVars

\* sync_apartment, lines 272-277: the two fetch_ical calls.
fetch ==
    /\ pc = "for"
    /\ i <= Len(APARTMENTS)
    /\ \E oa \in Outcomes(feed[APARTMENTS[i]]["Airbnb"]),
          ob \in Outcomes(feed[APARTMENTS[i]]["Booking.com"]) :
          /\ ab' = oa.bookings
          /\ bk' = ob.bookings
          /\ alerts' = BrokenAlerts("Airbnb", oa) \o BrokenAlerts("Booking.com", ob)
    /\ cycled' = cycled \cup {APARTMENTS[i]}
    /\ pc' = "fetched"
    /\ failed' = NoFailed
    /\ UNCHANGED <<feed, STATE_FILE, i, state, sweepEnd, fileAtStart, newCount,
                   lastCycle, savedCycle, alertedSaved>>
    /\ UNCHANGED pureVars

\* sync_apartment, line 279: save_ical_files returns.
save_ical_files ==
    /\ pc = "fetched"
    /\ pc' = "mirror"
    /\ UNCHANGED <<feed, STATE_FILE, i, state, ab, bk, alerts, sweepEnd, cycled,
                   fileAtStart, newCount, lastCycle, savedCycle, alertedSaved, failed>>
    /\ UNCHANGED pureVars

\* sync_apartment, line 279: save_ical_files raises (mkdir or write_text
\* fails); nothing in sync_apartment or run_sync catches it.
save_ical_files_raises ==
    /\ pc = "fetched"
    /\ pc' = AfterException
    /\ sweepEnd' = "cycle_raised"
    /\ STATE_FILE' = FileAfterAbort(STATE_FILE, state, APARTMENTS[i])
    /\ failed' = [name |-> APARTMENTS[i], phase |-> "pending",
                  record |-> FileRecord(fileAtStart, APARTMENTS[i])]
    /\ UNCHANGED <<feed, i, state, ab, bk, alerts, cycled, fileAtStart, newCount,
                   lastCycle, savedCycle, alertedSaved>>
    /\ UNCHANGED pureVars

\* sync_apartment, lines 281-283: the two sync_to_google_calendar calls,
\* which catch every exception of the calendar service.
mirror ==
    /\ pc = "mirror"
    /\ pc' = "diff"
    /\ UNCHANGED <<feed, STATE_FILE, i, state, ab, bk, alerts, sweepEnd, cycled,
                   fileAtStart, newCount, lastCycle, savedCycle, alertedSaved, failed>>
    /\ UNCHANGED pureVars

\* sync_apartment, lines 285-316, and the assignment of line 324.
diff_and_alert ==
    /\ pc = "diff"
    /\ LET name == APARTMENTS[i]
           prev == Prev(state, name)
           sent == CycleAlerts(ab, bk, prev)
       IN /\ alerts' = alerts \o sent
          /\ state' = (name :> Snapshot(ab, bk, find_conflicts(ab, bk))) @@ state
          /\ newCount' = [newCount EXCEPT ![name] =
                            [p \in Platforms |-> [u \in FeedUids(name, p) |->
                                IF u \in NewUids(sent, p) THEN Bump(@[p][u]) ELSE @[p][u]]]]
          /\ lastCycle' = [lastCycle EXCEPT ![name] =
                            [ran |-> TRUE, ab |-> ab, bk |-> bk,
                             known |-> prev.known_conflicts,
                             doubles |-> DoubleBookings(find_conflicts(ab, bk), prev.known_conflicts)]]
    /\ i' = i + 1
    /\ pc' = "for"
    /\ UNCHANGED <<feed, STATE_FILE, ab, bk, sweepEnd, cycled, fileAtStart,
                   savedCycle, alertedSaved, failed>>
    /\ UNCHANGED pureVars

\* save_state, line 97: write_text cannot open the file.
save_state_open_raises ==
    /\ pc = "for"
    /\ i > Len(APARTMENTS)
    /\ pc' = AfterException
    /\ sweepEnd' = "save_raised"
    /\ UNCHANGED <<feed, STATE_FILE, i, state, ab, bk, alerts, cycled, fileAtStart,
                   newCount, lastCycle, savedCycle, alertedSaved, failed>>
    /\ UNCHANGED pureVars

\* save_state, line 97: write_text opens the file for writing, which
\* truncates it.
save_state_open ==
    /\ pc = "for"
    /\ i > Len(APARTMENTS)
    /\ STATE_FILE' = Partial
    /\ pc' = "writing"
    /\ UNCHANGED <<feed, i, state, ab, bk, alerts, sweepEnd, cycled, fileAtStart,
                   newCount, lastCycle, savedCycle, alertedSaved, failed>>
    /\ UNCHANGED pureVars

\* save_state, line 97: the text is written and the file closed; run_sync
\* returns.
save_state_write ==
    /\ pc = "writing"
    /\ STATE_FILE' = dumps(state)
    /\ pc' = "ended"
    /\ sweepEnd' = "ok"
    /\ savedCycle' = [n \in AptNames |->
                        IF lastCycle[n].ran THEN lastCycle[n] ELSE savedCycle[n]]
    /\ alertedSaved' = [n \in AptNames |->
                          alertedSaved[n] \cup {UidPair(c) : c \in Range(lastCycle[n].doubles)}]
    /\ UNCHANGED <<feed, i, state, ab, bk, alerts, cycled, fileAtStart, newCount,
                   lastCycle, failed>>
    /\ UNCHANGED pureVars

\* save_state, line 97: the write or the close fails (disk full, I/O error).
save_state_write_raises ==
    /\ pc = "writing"
    /\ pc' = AfterException
    /\ sweepEnd' = "save_raised"
    /\ UNCHANGED <<feed, STATE_FILE, i, state, ab, bk, alerts, cycled, fileAtStart,
                   newCount, lastCycle, savedCycle, alertedSaved, failed>>
    /\ UNCHANGED pureVars

\* sync_loop, line 334: time.sleep(REFRESH_INTERVAL) is entered; the locals
\* of run_sync are gone.
sync_loop_sleep ==
    /\ pc = "ended"
    /\ pc' = "sleep"
    /\ i' = 1
    /\ state' = EmptyDict
    /\ ab' = <<>>
    /\ bk' = <<>>
    /\ alerts' = <<>>
    /\ sweepEnd' = "none"
    /\ cycled' = {}
    /\ fileAtStart' = NoFile
    /\ lastCycle' = [n \in AptNames |-> NoCycle]
    /\ UNCHANGED <<feed, STATE_FILE, newCount, savedCycle, alertedSaved, failed>>
    /\ UNCHANGED pureVars

\* sync_loop, lines 334 and 329: time.sleep returns and the loop goes round.
sleep_returns ==
    /\ pc = "sleep"
    /\ pc' = "loop"
    /\ UNCHANGED <<feed, STATE_FILE, i, state, ab, bk, alerts, sweepEnd, cycled,
                   fileAtStart, newCount, lastCycle, savedCycle, alertedSaved, failed>>
    /\ UNCHANGED pureVars

Scheduler ==
    \/ run_sync_load
    \/ run_sync_load_raises
    \/ fetch
    \/ save_ical_files
    \/ save_ical_files_raises
    \/ mirror
    \/ diff_and_alert
    \/ save_state_open_raises
    \/ save_state_open
    \/ save_state_write
    \/ save_state_write_raises
    \/ sync_loop_sleep
    \/ sleep_returns

Environment ==
    \E n \in AptNames, p \in Platforms : \E l \in FeedChoices(n, p) : FeedChange(n, p, l)

Next == Scheduler \/ Environment

Spec == Init /\ [][Next]_vars

\* The scheduler is the main thread of the process and every call it makes
\* returns or raises; the feeds change or not as they please.
FairSpec == Init /\ [][Next]_vars /\ WF_vars(Scheduler)

----------------------------------------------------------------------------
(* find_conflicts and the double-booking alerts on drawn booking lists *)

MaxLen == 2

Dates == {1, 2, 3}

Digit(k) == IF k = 1 THEN "1" ELSE IF k = 2 THEN "2" ELSE IF k = 3 THEN "3" ELSE "4"

\* Lists of exactly n bookings with any dates, the k-th with uid prefix+k.
ListsOf(n, prefix) ==
    {[k \in 1..n |-> [uid |-> prefix \o Digit(k), summary |-> "Reserved",
                      start |-> r[k][1], end |-> r[k][2]]] :
        r \in [1..n -> Dates \X Dates]}

\* The Airbnb list has up to MaxLen bookings, the Booking.com list up to two.
AbLists == UNION {ListsOf(n, "a") : n \in 0..MaxLen}

BkLists == UNION {ListsOf(n, "b") : n \in {0, 1, 2}}

PureInit ==
    /\ feed = [n \in AptNames |-> [p \in Platforms |-> <<>>]]
    /\ SchedInit
    /\ in_ab \in AbLists
    /\ in_bk \in BkLists
    /\ out = [conflicts |-> <<>>, doubles |-> <<>>]
    /\ ppc = "ready"
    /\ DiffIdle
    /\ MirrorIdle
    /\ CycleIdle
    /\ ArtifactIdle

\* Lines 305-309 on the drawn lists, nothing known yet.
detect_conflicts ==
    /\ ppc = "ready"
    /\ out' = [conflicts |-> find_conflicts(in_ab, in_bk),
               doubles |-> DoubleAlerts(find_conflicts(in_ab, in_bk), <<>>)]
    /\ ppc' = "done"
    /\ UNCHANGED <<feed, in_ab, in_bk>>
    /\ UNCHANGED schedVars
    /\ UNCHANGED diffVars
    /\ UNCHANGED <<cycleVars, artifactVars>>
    /\ UNCHANGED mirrorVars

PureNext == detect_conflicts

PureSpec == PureInit /\ [][PureNext]_vars

----------------------------------------------------------------------------
(* One call of sync_apartment on a drawn prior snapshot and drawn feeds *)

MaxFetched == 2

\* Bookings a feed of the apartment can serve.  A VEVENT without UID gets
\* uid "" (line 199); uids are opaque strings and may hold a "_".
AirbnbPool ==
    {[uid |-> "a", summary |-> "Reserved", start |-> 1, end |-> 3],
     [uid |-> "a_b", summary |-> "Reserved", start |-> 1, end |-> 3],
     [uid |-> "", summary |-> "Reserved", start |-> 1, end |-> 2],
     [uid |-> "", summary |-> "Reserved", start |-> 3, end |-> 4]}

BookingPool ==
    {[uid |-> "c", summary |-> "CLOSED", start |-> 2, end |-> 4],
     [uid |-> "b_c", summary |-> "CLOSED", start |-> 2, end |-> 4]}

\* Lists of up to n different bookings of a pool, in any order.
ListsFrom(pool, n) ==
    UNION {{l \in [1..m -> pool] : \A x, y \in 1..m : x # y => l[x] # l[y]} : m \in 0..n}

AirbnbLists == ListsFrom(AirbnbPool, MaxFetched)

BookingLists == ListsFrom(BookingPool, 1)

\* The dict run_sync passes: empty on the apartment's first cycle, or
\* holding what sync_apartment returned for the lists of an earlier cycle.
StateAfter(pf) ==
    IF pf.has
    THEN (APARTMENTS[1] :> Snapshot(pf.ab, pf.bk, find_conflicts(pf.ab, pf.bk)))
    ELSE EmptyDict

DiffInit ==
    /\ feed = [n \in AptNames |-> [p \in Platforms |-> <<>>]]
    /\ SchedInit
    /\ PureIdle
    /\ prior_fetch \in {NoFetch} \cup [has : {TRUE}, ab : AirbnbLists, bk : BookingLists]
    /\ apt_state = StateAfter(prior_fetch)
    /\ serving \in [ab : AirbnbLists, bk : BookingLists]
    /\ fetched = [ab |-> NotFetched, bk |-> NotFetched]
    /\ notified = <<>>
    /\ returned = <<>>
    /\ dpc = "call"
    /\ MirrorIdle
    /\ CycleIdle
    /\ ArtifactIdle

\* sync_apartment, lines 272-277: the two fetch_ical calls.
sync_apartment_fetch ==
    /\ dpc = "call"
    /\ \E oa \in Outcomes(serving.ab), ob \in Outcomes(serving.bk) :
          /\ fetched' = [ab |-> oa, bk |-> ob]
          /\ notified' = BrokenAlerts("Airbnb", oa) \o BrokenAlerts("Booking.com", ob)
    /\ dpc' = "fetched"
    /\ UNCHANGED <<prior_fetch, apt_state, serving, returned>>
    /\ UNCHANGED <<feed, in_ab, in_bk, out, ppc>>
    /\ UNCHANGED schedVars
    /\ UNCHANGED mirrorVars
    /\ UNCHANGED <<cycleVars, artifactVars>>

\* sync_apartment, lines 279-283: save_ical_files returns, and so do the
\* two sync_to_google_calendar calls, which catch their exceptions.
sync_apartment_publish ==
    /\ dpc = "fetched"
    /\ dpc' = "diff"
    /\ UNCHANGED <<prior_fetch, apt_state, serving, fetched, notified, returned>>
    /\ UNCHANGED <<feed, in_ab, in_bk, out, ppc>>
    /\ UNCHANGED schedVars
    /\ UNCHANGED mirrorVars
    /\ UNCHANGED <<cycleVars, artifactVars>>

\* sync_apartment, line 279: save_ical_files raises.
sync_apartment_publish_raises ==
    /\ dpc = "fetched"
    /\ dpc' = "raised"
    /\ UNCHANGED <<prior_fetch, apt_state, serving, fetched, notified, returned>>
    /\ UNCHANGED <<feed, in_ab, in_bk, out, ppc>>
    /\ UNCHANGED schedVars
    /\ UNCHANGED mirrorVars
    /\ UNCHANGED <<cycleVars, artifactVars>>

\* sync_apartment, lines 285-316.
sync_apartment_diff ==
    /\ dpc = "diff"
    /\ LET la == fetched.ab.bookings
           lb == fetched.bk.bookings
       IN /\ notified' = notified \o CycleAlerts(la, lb, Prev(apt_state, APARTMENTS[1]))
          /\ returned' = <<Snapshot(la, lb, find_conflicts(la, lb))>>
    /\ dpc' = "done"
    /\ UNCHANGED <<prior_fetch, apt_state, serving, fetched>>
    /\ UNCHANGED <<feed, in_ab, in_bk, out, ppc>>
    /\ UNCHANGED schedVars
    /\ UNCHANGED mirrorVars
    /\ UNCHANGED <<cycleVars, artifactVars>>

DiffNext ==
    \/ sync_apartment_fetch
    \/ sync_apartment_publish
    \/ sync_apartment_publish_raises
    \/ sync_apartment_diff

DiffSpec == DiffInit /\ [][DiffNext]_vars

----------------------------------------------------------------------------
(* sync_to_google_calendar *)

\* A summary is the sequence of the pieces of its text, the tag "[SW]"
\* being a piece of its own wherever it occurs.

MaxEvents == 3

MaxRuns == 2

\* Events the service returns per list call (maxResults of the service).
PageSize == 2

\* Summaries of the events found in the calendar: two foreign ones, one of
\* which has the tag inside its text, and two written by earlier runs.
SummaryPool ==
    {<<"Dentist">>, <<"[SW]", " standup">>, <<"Reserved", " ", "[SW]">>, <<"Old", " ", "[SW]">>}

\* b["start"].strftime("%Y-%m-%d") inside {"date": ...}.
EventDate(d) == [date |-> d]

\* f"{b['summary']} [SW]"
TaggedSummary(summary) == <<summary, " ", "[SW]">>

\* The body of the insert call for booking b (lines 168-173); the
\* description holds the time of the run.
EventBody(b) ==
    [summary |-> TaggedSummary(b.summary), start |-> EventDate(b.start),
     end |-> EventDate(b.end)]

\* `summary == "[SW]"` where the code has `"[SW]" in summary`.
IsOwnedExact(summary) == summary = <<"[SW]">>

\* "[SW]" in e.get("summary", "")
IsOwned(summary) == \E k \in 1..Len(summary) : summary[k] = "[SW]"

\* Calendars of up to MaxEvents events with ids 1, 2, ...
Calendars ==
    UNION {{ {[id |-> k, summary |-> f[k], start |-> EventDate(1), end |-> EventDate(3)] :
                k \in 1..n} : f \in [1..n -> SummaryPool]} : n \in 0..MaxEvents}

\* Booking lists of up to two bookings out of a1 and b1.
TargetLists == UNION {[1..n -> {a1, b1}] : n \in {0, 1, 2}}

\* events().list(calendarId, singleEvents=True, pageToken): the service
\* returns the events in a fixed order (here by id), PageSize at a time,
\* and a token for the rest; the token stands for the last id returned.
SortedIds(S) ==
    CHOOSE q \in [1..Cardinality(S) -> S] : \A x, y \in 1..Cardinality(S) : x < y => q[x] < q[y]

ListPage(cal, token) ==
    LET rest == SortedIds({e.id : e \in {x \in cal : x.id > token}})
        n == IF Len(rest) < PageSize THEN Len(rest) ELSE PageSize
        EventOf(k) == CHOOSE e \in cal : e.id = k
    IN [items |-> [k \in 1..n |-> EventOf(rest[k])],
        nextPageToken |-> IF Len(rest) > n THEN rest[n] ELSE 0]

\* What an event shows: summary, start and end.
Shown(e) == [summary |-> e.summary, start |-> e.start, end |-> e.end]

\* The events of a calendar that carry the tag at the end of the summary,
\* by what they show, each with the number of events showing it.
VisibleTagged(cal) ==
    LET tagged == {e \in cal : e.summary[Len(e.summary)] = "[SW]"}
    IN {<<x, Cardinality({e \in tagged : Shown(e) = x})>> : x \in {Shown(e) : e \in tagged}}

MirrorInit ==
    /\ feed = [n \in AptNames |-> [p \in Platforms |-> <<>>]]
    /\ SchedInit
    /\ PureIdle
    /\ DiffIdle
    /\ calendar \in Calendars
    /\ original = calendar
    /\ all_bookings \in TargetLists
    /\ gcal_service \in BOOLEAN
    /\ mpc = "call"
    /\ page_token = 0
    /\ items = <<>>
    /\ next_booking = 1
    /\ next_id = MaxEvents + 1
    /\ n_deletes = 0
    /\ n_inserts = 0
    /\ existing = calendar
    /\ runs = 1
    /\ prev_visible = <<>>
    /\ CycleIdle
    /\ ArtifactIdle

\* Lines 150-156: get_gcal_service returns the cached service or builds
\* and caches one; page_token = None.
get_gcal_service ==
    /\ mpc = "call"
    /\ gcal_service' = TRUE
    /\ page_token' = 0
    /\ mpc' = "list"
    /\ UNCHANGED <<calendar, original, all_bookings, items, next_booking, next_id,
                   n_deletes, n_inserts, existing, runs, prev_visible>>
    /\ UNCHANGED <<feed, in_ab, in_bk, out, ppc>>
    /\ UNCHANGED schedVars
    /\ UNCHANGED diffVars
    /\ UNCHANGED <<cycleVars, artifactVars>>

\* Lines 150-151: no service cached and none can be built (no credentials,
\* or the connection fails); sync_to_google_calendar returns.
get_gcal_service_none ==
    /\ mpc = "call"
    /\ ~gcal_service
    /\ mpc' = "no_service"
    /\ UNCHANGED <<calendar, original, all_bookings, gcal_service, page_token, items,
                   next_booking, next_id, n_deletes, n_inserts, existing, runs, prev_visible>>
    /\ UNCHANGED <<feed, in_ab, in_bk, out, ppc>>
    /\ UNCHANGED schedVars
    /\ UNCHANGED diffVars
    /\ UNCHANGED <<cycleVars, artifactVars>>

\* Lines 158 and 162: one list call and the token of the next page.
events_list ==
    /\ mpc = "list"
    /\ items' = ListPage(calendar, page_token).items
    /\ page_token' = ListPage(calendar, page_token).nextPageToken
    /\ mpc' = "scan"
    /\ UNCHANGED <<calendar, original, all_bookings, gcal_service, next_booking, next_id,
                   n_deletes, n_inserts, existing, runs, prev_visible>>
    /\ UNCHANGED <<feed, in_ab, in_bk, out, ppc>>
    /\ UNCHANGED schedVars
    /\ UNCHANGED diffVars
    /\ UNCHANGED <<cycleVars, artifactVars>>

\* Lines 159-161: the next item has the tag in its summary and is deleted.
events_delete ==
    /\ mpc = "scan"
    /\ items # <<>>
    /\ IsOwned(Head(items).summary)
    /\ calendar' = calendar \ {Head(items)}
    /\ items' = Tail(items)
    /\ n_deletes' = n_deletes + 1
    /\ UNCHANGED <<original, all_bookings, gcal_service, mpc, page_token, next_booking,
                   next_id, n_inserts, existing, runs, prev_visible>>
    /\ UNCHANGED <<feed, in_ab, in_bk, out, ppc>>
    /\ UNCHANGED schedVars
    /\ UNCHANGED diffVars
    /\ UNCHANGED <<cycleVars, artifactVars>>

\* Lines 159-160: the next item has no tag in its summary.
events_keep ==
    /\ mpc = "scan"
    /\ items # <<>>
    /\ ~IsOwned(Head(items).summary)
    /\ items' = Tail(items)
    /\ UNCHANGED <<calendar, original, all_bookings, gcal_service, mpc, page_token,
                   next_booking, next_id, n_deletes, n_inserts, existing, runs, prev_visible>>
    /\ UNCHANGED <<feed, in_ab, in_bk, out, ppc>>
    /\ UNCHANGED schedVars
    /\ UNCHANGED diffVars
    /\ UNCHANGED <<cycleVars, artifactVars>>

\* Lines 163-164 and 167: the page is done; the next page is listed, or
\* the while loop is left for the for loop, which ends at once when
\* all_bookings is empty.
page_done ==
    /\ mpc = "scan"
    /\ items = <<>>
    /\ mpc' = IF page_token # 0 THEN "list"
              ELSE IF all_bookings = <<>> THEN "done" ELSE "insert"
    /\ next_booking' = 1
    /\ UNCHANGED <<calendar, original, all_bookings, gcal_service, page_token, items,
                   next_id, n_deletes, n_inserts, existing, runs, prev_visible>>
    /\ UNCHANGED <<feed, in_ab, in_bk, out, ppc>>
    /\ UNCHANGED schedVars
    /\ UNCHANGED diffVars
    /\ UNCHANGED <<cycleVars, artifactVars>>

\* Lines 167-175: the event of the next booking is inserted.
events_insert ==
    /\ mpc = "insert"
    /\ next_booking <= Len(all_bookings)
    /\ calendar' = calendar \cup
          {[id |-> next_id] @@ EventBody(all_bookings[next_booking])}
    /\ next_id' = next_id + 1
    /\ n_inserts' = n_inserts + 1
    /\ next_booking' = next_booking + 1
    /\ mpc' = IF next_booking = Len(all_bookings) THEN "done" ELSE "insert"
    /\ UNCHANGED <<original, all_bookings, gcal_service, page_token, items, n_deletes,
                   existing, runs, prev_visible>>
    /\ UNCHANGED <<feed, in_ab, in_bk, out, ppc>>
    /\ UNCHANGED schedVars
    /\ UNCHANGED diffVars
    /\ UNCHANGED <<cycleVars, artifactVars>>

\* Lines 177-178: a list, delete or insert call raises; the exception is
\* logged and sync_to_google_calendar returns.
execute_raises ==
    /\ \/ mpc = "list"
       \/ mpc = "scan" /\ items # <<>> /\ IsOwned(Head(items).summary)
       \/ mpc = "insert"
    /\ mpc' = "failed"
    /\ UNCHANGED <<calendar, original, all_bookings, gcal_service, page_token, items,
                   next_booking, next_id, n_deletes, n_inserts, existing, runs, prev_visible>>
    /\ UNCHANGED <<feed, in_ab, in_bk, out, ppc>>
    /\ UNCHANGED schedVars
    /\ UNCHANGED diffVars
    /\ UNCHANGED <<cycleVars, artifactVars>>

\* sync_apartment, lines 281-283, in the next cycle: the same calendar is
\* synced again with the same list, nobody else having touched it.
sync_again ==
    /\ mpc \in {"done", "failed", "no_service"}
    /\ runs < MaxRuns
    /\ runs' = runs + 1
    /\ prev_visible' = IF mpc = "done" THEN <<VisibleTagged(calendar)>> ELSE <<>>
    /\ existing' = calendar
    /\ mpc' = "call"
    /\ page_token' = 0
    /\ items' = <<>>
    /\ next_booking' = 1
    /\ n_deletes' = 0
    /\ n_inserts' = 0
    /\ UNCHANGED <<calendar, original, all_bookings, gcal_service, next_id>>
    /\ UNCHANGED <<feed, in_ab, in_bk, out, ppc>>
    /\ UNCHANGED schedVars
    /\ UNCHANGED diffVars
    /\ UNCHANGED <<cycleVars, artifactVars>>

MirrorNext ==
    \/ get_gcal_service
    \/ get_gcal_service_none
    \/ events_list
    \/ events_delete
    \/ events_keep
    \/ page_done
    \/ events_insert
    \/ execute_raises
    \/ sync_again

MirrorSpec == MirrorInit /\ [][MirrorNext]_vars

----------------------------------------------------------------------------
(* One call of sync_apartment, call by call *)

\* The stale event an earlier run left in a Mirror Calendar.
StaleEvent ==
    [id |-> 1, summary |-> <<"Old", " ", "[SW]">>, start |-> EventDate(1), end |-> EventDate(3)]

\* A foreign event somebody else put into a Mirror Calendar.
ForeignEvent ==
    [id |-> 2, summary |-> <<"Dentist">>, start |-> EventDate(1), end |-> EventDate(3)]

CycleInit ==
    /\ feed = [n \in AptNames |-> [p \in Platforms |-> <<>>]]
    /\ SchedInit
    /\ PureIdle
    /\ ArtifactIdle
    /\ prior_fetch \in {NoFetch} \cup [has : {TRUE}, ab : {<<>>, <<a1>>}, bk : {<<>>}]
    /\ apt_state = StateAfter(prior_fetch)
    /\ serving \in [ab : {<<>>, <<a1>>}, bk : {<<>>, <<b1>>}]
    /\ fetched = [ab |-> NotFetched, bk |-> NotFetched]
    /\ notified = <<>>
    /\ returned = <<>>
    /\ dpc = "call"
    /\ mirror_cals \in [airbnb_cal_id : {{}, {StaleEvent}}, google_cal_id : {{}, {StaleEvent, ForeignEvent}}]
    /\ mirror_ends = <<>>
    /\ notifiers \in [telegram : BOOLEAN, email : BOOLEAN]
    /\ attempts = <<>>
    /\ pending = <<>>
    /\ calendar = {}
    /\ original = {}
    /\ all_bookings = <<>>
    /\ gcal_service = FALSE
    /\ mpc = "idle"
    /\ page_token = 0
    /\ items = <<>>
    /\ next_booking = 1
    /\ next_id = MaxEvents + 1
    /\ n_deletes = 0
    /\ n_inserts = 0
    /\ existing = {}
    /\ runs = 0
    /\ prev_visible = <<>>

\* The channels a message is handed to, in order, each only if configured
\* (lines 243 and 252): alert() calls send_telegram and send_email (lines
\* 264-265), fetch_ical calls send_telegram alone (line 203).
Channels(message, cfg) ==
    (IF cfg.telegram THEN <<"telegram">> ELSE <<>>)
    \o (IF cfg.email /\ message.kind # "broken" THEN <<"email">> ELSE <<>>)

\* The deliveries of the k-th message, results[c] telling whether the
\* delivery on its c-th channel went through or raised (and was caught,
\* lines 248 and 259).
Deliveries(k, message, cfg, results) ==
    [c \in 1..Len(Channels(message, cfg)) |->
        [k |-> k, channel |-> Channels(message, cfg)[c], ok |-> results[c]]]

\* Lines 275-276 with the messages of line 203.
cycle_fetch ==
    /\ dpc = "call"
    /\ \E oa \in Outcomes(serving.ab), ob \in Outcomes(serving.bk) :
          LET msgs == BrokenAlerts("Airbnb", oa) \o BrokenAlerts("Booking.com", ob)
          IN /\ fetched' = [ab |-> oa, bk |-> ob]
             /\ notified' = msgs
             /\ \E r \in [1..Len(msgs) -> BOOLEAN] :
                   attempts' = IF notifiers.telegram
                               THEN [k \in 1..Len(msgs) |->
                                        Deliveries(k, msgs[k], notifiers, <<r[k]>>)[1]]
                               ELSE <<>>
    /\ dpc' = "fetched"
    /\ UNCHANGED <<prior_fetch, apt_state, serving, returned>>
    /\ UNCHANGED <<mirror_cals, mirror_ends, notifiers, pending>>
    /\ UNCHANGED <<feed, in_ab, in_bk, out, ppc>>
    /\ UNCHANGED schedVars
    /\ UNCHANGED mirrorVars
    /\ UNCHANGED artifactVars

\* The values sync_to_google_calendar starts with for calendar `cal` and
\* list `bookings`.
MirrorCall(cal, bookings) ==
    /\ calendar' = cal
    /\ existing' = cal
    /\ original' = cal
    /\ all_bookings' = bookings
    /\ mpc' = "call"
    /\ page_token' = 0
    /\ items' = <<>>
    /\ next_booking' = 1
    /\ n_deletes' = 0
    /\ n_inserts' = 0
    /\ UNCHANGED <<gcal_service, next_id, runs, prev_visible>>

\* An exception of a calendar call that sync_to_google_calendar lets
\* through to sync_apartment.
AfterMirrorUncaught(end, next) == IF end = "failed" THEN "raised" ELSE next

\* Where sync_apartment is after a sync_to_google_calendar call that ended
\* at `end`: the call returns in every case (lines 151 and 177-178).
AfterMirror(end, next) == next

\* Line 279 returns; line 281 calls sync_to_google_calendar for
\* airbnb_cal_id with the Booking.com list.
cycle_save_ical_files ==
    /\ dpc = "fetched"
    /\ dpc' = "mirror_airbnb"
    /\ MirrorCall(mirror_cals.airbnb_cal_id, fetched.bk.bookings)
    /\ UNCHANGED <<prior_fetch, apt_state, serving, fetched, notified, returned>>
    /\ UNCHANGED cycleVars
    /\ UNCHANGED <<feed, in_ab, in_bk, out, ppc>>
    /\ UNCHANGED schedVars
    /\ UNCHANGED artifactVars

\* Line 281 returns; line 283 calls sync_to_google_calendar for
\* google_cal_id with the Airbnb list.
mirror_airbnb_returns ==
    /\ dpc = "mirror_airbnb"
    /\ mpc \in {"done", "failed", "no_service"}
    /\ mirror_cals' = [mirror_cals EXCEPT !.airbnb_cal_id = calendar]
    /\ mirror_ends' = Append(mirror_ends, mpc)
    /\ dpc' = AfterMirror(mpc, "mirror_google")
    /\ IF dpc' = "mirror_google"
       THEN MirrorCall(mirror_cals.google_cal_id, fetched.ab.bookings)
       ELSE /\ mpc' = "idle"
            /\ UNCHANGED <<calendar, original, all_bookings, gcal_service, page_token, items,
                           next_booking, next_id, n_deletes, n_inserts, existing, runs,
                           prev_visible>>
    /\ UNCHANGED <<prior_fetch, apt_state, serving, fetched, notified, returned>>
    /\ UNCHANGED <<notifiers, attempts, pending>>
    /\ UNCHANGED <<feed, in_ab, in_bk, out, ppc>>
    /\ UNCHANGED schedVars
    /\ UNCHANGED artifactVars

\* Line 283 returns; lines 285-288 and the comprehensions and
\* find_conflicts of lines 291-305 give the alert() calls to make.
mirror_google_returns ==
    /\ dpc = "mirror_google"
    /\ mpc \in {"done", "failed", "no_service"}
    /\ mirror_cals' = [mirror_cals EXCEPT !.google_cal_id = calendar]
    /\ mirror_ends' = Append(mirror_ends, mpc)
    /\ dpc' = AfterMirror(mpc, "diff")
    /\ mpc' = "idle"
    /\ pending' = IF dpc' = "diff"
                  THEN CycleAlerts(fetched.ab.bookings, fetched.bk.bookings,
                                   Prev(apt_state, APARTMENTS[1]))
                  ELSE <<>>
    /\ UNCHANGED <<calendar, original, all_bookings, gcal_service, page_token, items,
                   next_booking, next_id, n_deletes, n_inserts, existing, runs, prev_visible>>
    /\ UNCHANGED <<prior_fetch, apt_state, serving, fetched, notified, returned>>
    /\ UNCHANGED <<notifiers, attempts>>
    /\ UNCHANGED <<feed, in_ab, in_bk, out, ppc>>
    /\ UNCHANGED schedVars
    /\ UNCHANGED artifactVars

\* One alert() call of lines 291-309 (lines 262-265): the message goes to
\* each configured channel, whose delivery goes through or raises.
cycle_alert ==
    /\ dpc = "diff"
    /\ pending # <<>>
    /\ notified' = Append(notified, Head(pending))
    /\ pending' = Tail(pending)
    /\ \E r \in [1..Len(Channels(Head(pending), notifiers)) -> BOOLEAN] :
          attempts' = attempts \o Deliveries(Len(notified) + 1, Head(pending), notifiers, r)
    /\ UNCHANGED <<prior_fetch, apt_state, serving, fetched, returned, dpc>>
    /\ UNCHANGED <<mirror_cals, mirror_ends, notifiers>>
    /\ UNCHANGED <<feed, in_ab, in_bk, out, ppc>>
    /\ UNCHANGED schedVars
    /\ UNCHANGED mirrorVars
    /\ UNCHANGED artifactVars

\* Lines 311-316: every alert() call is made; the snapshot is returned.
cycle_return ==
    /\ dpc = "diff"
    /\ pending = <<>>
    /\ returned' = <<Snapshot(fetched.ab.bookings, fetched.bk.bookings,
                              find_conflicts(fetched.ab.bookings, fetched.bk.bookings))>>
    /\ dpc' = "done"
    /\ UNCHANGED <<prior_fetch, apt_state, serving, fetched, notified>>
    /\ UNCHANGED cycleVars
    /\ UNCHANGED <<feed, in_ab, in_bk, out, ppc>>
    /\ UNCHANGED schedVars
    /\ UNCHANGED mirrorVars
    /\ UNCHANGED artifactVars

CycleNext ==
    \/ cycle_fetch
    \/ cycle_save_ical_files
    \/ sync_apartment_publish_raises
    \/ get_gcal_service
    \/ get_gcal_service_none
    \/ events_list
    \/ events_delete
    \/ events_keep
    \/ page_done
    \/ events_insert
    \/ execute_raises
    \/ mirror_airbnb_returns
    \/ mirror_google_returns
    \/ cycle_alert
    \/ cycle_return

CycleSpec == CycleInit /\ [][CycleNext]_vars

----------------------------------------------------------------------------
(* save_ical_files and the web server's GET handler, on the same files *)

\* The number of pieces in which a document reaches the file: write_text
\* opens the file for writing, which empties it, and the buffered pieces
\* arrive between the open and the close.
DocLen == 2

\* The number of sweeps whose save_ical_files is followed.
MaxGen == 2

\* The two files of the one apartment, in the order of lines 235-236.
ArtifactFiles == <<"for_booking", "for_airbnb">>

OpenAt == [for_booking |-> "open_for_booking", for_airbnb |-> "open_for_airbnb"]

WriteAt == [for_booking |-> "write_for_booking", for_airbnb |-> "write_for_airbnb"]

\* Where the scheduler thread goes after closing file f.
AfterClose(f) == IF f = ArtifactFiles[1] THEN OpenAt[ArtifactFiles[2]] ELSE "idle"

besideArtifact == <<feed, schedVars, in_ab, in_bk, out, ppc, diffVars, mirrorVars, cycleVars>>

ArtifactInit ==
    /\ feed = [n \in AptNames |-> [p \in Platforms |-> <<>>]]
    /\ SchedInit
    /\ PureIdle
    /\ DiffIdle
    /\ MirrorIdle
    /\ CycleIdle
    /\ ArtifactIdle

\* Lines 232-234, called from line 279 once a sweep: the directory is made
\* and the first document generated; the next step opens the first file.
save_ical_files_begin ==
    /\ wpc = "idle"
    /\ wgen < MaxGen
    /\ wgen' = wgen + 1
    /\ wpc' = OpenAt[ArtifactFiles[1]]
    /\ UNCHANGED <<artifact, rpc, rfile, response>>
    /\ UNCHANGED besideArtifact

\* Lines 235-236, write_text: the file is opened for writing, which
\* creates it or empties it in place.
write_text_open(f) ==
    /\ wpc = OpenAt[f]
    /\ artifact' = [artifact EXCEPT ![f] = [exists |-> TRUE, gen |-> wgen, len |-> 0]]
    /\ wpc' = WriteAt[f]
    /\ UNCHANGED <<wgen, rpc, rfile, response>>
    /\ UNCHANGED besideArtifact

\* Lines 235-236, write_text: one more piece of the document reaches the
\* file.
write_text_write(f) ==
    /\ wpc = WriteAt[f]
    /\ artifact[f].len < DocLen
    /\ artifact' = [artifact EXCEPT ![f].len = @ + 1]
    /\ UNCHANGED <<wpc, wgen, rpc, rfile, response>>
    /\ UNCHANGED besideArtifact

\* Lines 235-236, write_text: the whole document is in the file, which is
\* closed.
write_text_close(f) ==
    /\ wpc = WriteAt[f]
    /\ artifact[f].len = DocLen
    /\ wpc' = AfterClose(f)
    /\ UNCHANGED <<artifact, wgen, rpc, rfile, response>>
    /\ UNCHANGED besideArtifact

\* Lines 235-236 and 331-333: the open or a write raises (full disk,
\* permissions); nothing in save_ical_files or sync_apartment catches it,
\* sync_loop does, and the file stays as it is until the next sweep.
write_text_raises ==
    /\ wpc # "idle"
    /\ wpc' = "idle"
    /\ UNCHANGED <<artifact, wgen, rpc, rfile, response>>
    /\ UNCHANGED besideArtifact

\* Lines 108-113: a GET of "/" or "/health" is answered with the status
\* line, without touching a file.
do_GET_health ==
    /\ rpc = "idle"
    /\ rfile' = "health"
    /\ response' = [NoResponse EXCEPT !.status = 200]
    /\ UNCHANGED <<artifact, wpc, wgen, rpc>>
    /\ UNCHANGED besideArtifact

\* Line 114, super().do_GET(): the file of the path is opened for reading;
\* a file that does not exist is answered with 404.
do_GET(f) ==
    /\ rpc = "idle"
    /\ rfile' = f
    /\ IF artifact[f].exists
          THEN /\ rpc' = "opened"
               /\ response' = NoResponse
          ELSE /\ rpc' = "idle"
               /\ response' = [NoResponse EXCEPT !.status = 404]
    /\ UNCHANGED <<artifact, wpc, wgen>>
    /\ UNCHANGED besideArtifact

\* Line 114, send_head: the headers are sent with the size the file has
\* now.
send_head ==
    /\ rpc = "opened"
    /\ response' = [response EXCEPT !.status = 200, !.size = artifact[rfile].len]
    /\ rpc' = "copy"
    /\ UNCHANGED <<artifact, wpc, wgen, rfile>>
    /\ UNCHANGED besideArtifact

\* Line 114, copyfile: the body sent is what the file holds now.
copyfile ==
    /\ rpc = "copy"
    /\ response' = [response EXCEPT !.body = [gen |-> artifact[rfile].gen,
                                              len |-> artifact[rfile].len]]
    /\ rpc' = "idle"
    /\ UNCHANGED <<artifact, wpc, wgen, rfile>>
    /\ UNCHANGED besideArtifact

ArtifactNext ==
    \/ save_ical_files_begin
    \/ \E f \in {"for_booking", "for_airbnb"} : write_text_open(f)
    \/ \E f \in {"for_booking", "for_airbnb"} : write_text_write(f)
    \/ \E f \in {"for_booking", "for_airbnb"} : write_text_close(f)
    \/ write_text_raises
    \/ do_GET_health
    \/ \E f \in {"for_booking", "for_airbnb"} : do_GET(f)
    \/ send_head
    \/ copyfile

ArtifactSpec == ArtifactInit /\ [][ArtifactNext]_vars

----------------------------------------------------------------------------
(* Properties *)

Count(seq, x) == Cardinality({k \in 1..Len(seq) : seq[k] = x})

\* C1: over any sequence of sweeps, aborted ones included, a booking that
\* stays in its feed with the same uid gets exactly one new-booking alert
\* for its apartment and platform: never a second one.
C1_OneNewBookingAlert ==
    \A n \in AptNames, p \in Platforms :
        \A u \in FeedUids(n, p) : newCount[n][p][u] <= 1

\* C2: a cycle sends no double-booking alert for a pair that its feeds
\* return, that overlaps and whose key is in the known_conflicts the sweep
\* read from the snapshot file; and over two consecutive saved cycles of an
\* apartment with identical fetched lists each overlapping pair is alerted
\* once in total (not at all when it was known before the first of them).
C2_KnownConflictNotReAlerted ==
    \A n \in AptNames :
        lastCycle[n].ran =>
            LET cur == lastCycle[n]
                old == savedCycle[n]
                stored == FileRecord(fileAtStart, n).record
                persisted == IF stored = <<>> THEN <<>> ELSE stored[1].known_conflicts
                Overlapping == {c \in [airbnb : Range(cur.ab), booking : Range(cur.bk)] :
                                  c.airbnb.start < c.booking.end /\ c.booking.start < c.airbnb.end}
            IN /\ \A c \in Overlapping :
                     (c.airbnb.uid \o "_" \o c.booking.uid) \in Range(persisted)
                         => c \notin Range(cur.doubles)
               /\ (sweepEnd # "ok" /\ old.ran /\ old.ab = cur.ab /\ old.bk = cur.bk) =>
                     \A c \in Overlapping :
                         Count(old.doubles, c) + Count(cur.doubles, c) =
                             (IF (c.airbnb.uid \o "_" \o c.booking.uid) \in Range(old.known)
                              THEN 0 ELSE 1)

\* A cycle over the lists of the apartment's last saved cycle, whose one
\* overlapping pair was alerted by that cycle and is not alerted again.
C2_Witness ==
    \E n \in AptNames :
        /\ lastCycle[n].ran /\ savedCycle[n].ran /\ sweepEnd # "ok"
        /\ savedCycle[n].ab = lastCycle[n].ab /\ savedCycle[n].bk = lastCycle[n].bk
        /\ Len(find_conflicts(lastCycle[n].ab, lastCycle[n].bk)) = 1
        /\ Len(savedCycle[n].doubles) = 1
        /\ lastCycle[n].doubles = <<>>

\* C3: a pair whose double-booking alert fired in a cycle whose snapshot
\* was saved is not alerted by any later cycle of the apartment, whatever
\* the cycles in between computed.
C3_NeverReAlerted ==
    sweepEnd # "ok" =>
        \A n \in AptNames :
            \A c \in Range(lastCycle[n].doubles) : UidPair(c) \notin alertedSaved[n]

\* C4: when the cycle of an apartment raised, every apartment after it in
\* APARTMENTS has had its cycle entered by the time the sweep ends.
C4_LaterApartmentsStillRun ==
    (pc = "ended" /\ sweepEnd = "cycle_raised") =>
        \A j \in (i + 1)..Len(APARTMENTS) : APARTMENTS[j] \in cycled

\* C5: when the sweep has ended, normally or by an exception in another
\* apartment's cycle, the file holds for every apartment whose cycle
\* completed the snapshot that cycle returned.
C5_CompletedSnapshotsStored ==
    (pc = "ended" /\ sweepEnd \in {"ok", "cycle_raised"}) =>
        \A n \in AptNames :
            lastCycle[n].ran =>
                FileRecord(STATE_FILE, n) = [kind |-> "json", record |-> <<state[n]>>]

\* C6: after the cycle of an apartment raised, the file holds for that
\* apartment what it held before the sweep, and the next sweep's load_state
\* reads exactly that record.
C6_FailedCycleKeepsSnapshot ==
    /\ failed.phase = "pending" => FileRecord(STATE_FILE, failed.name) = failed.record
    /\ failed.phase = "read" => DictRecord(state, failed.name) = failed.record.record

\* The sweep after a failed cycle has read a stored record with a booking
\* in it for the apartment that failed.
C6_Witness ==
    /\ failed.phase = "read"
    /\ failed.record.record # <<>>
    /\ DictRecord(state, failed.name) # <<>>
    /\ Len(state[failed.name].airbnb_uids) > 0

\* C7: no exception of a sweep ends the scheduler loop: every sweep that
\* ended is followed by the sleep, and a sweep is started infinitely often.
C7_SchedulerNeverStops ==
    /\ []<><<run_sync_load \/ run_sync_load_raises>>_vars
    /\ [](pc = "ended" => <>(pc = "sleep"))

\* A sweep has started after the sweep before it was aborted by an
\* exception.
C7_Witness ==
    /\ pc = "for"
    /\ failed.phase = "read"

\* C8: whenever no save_state is in progress the snapshot file is complete
\* (the previous state or the new one), so that load_state succeeds.
C8_StoreNeverTorn ==
    pc \in {"ended", "sleep", "loop"} => STATE_FILE.kind # "partial"

\* C9: find_conflicts returns exactly the pairs (a, b), a from the first
\* list and b from the second, with a.start < b.end and b.start < a.end,
\* each once.
C9_FindConflictsExact ==
    ppc = "done" =>
        LET hits == {h \in (1..Len(in_ab)) \X (1..Len(in_bk)) :
                        /\ in_ab[h[1]].start < in_bk[h[2]].end
                        /\ in_bk[h[2]].start < in_ab[h[1]].end}
            PairOf(h) == [airbnb |-> in_ab[h[1]], booking |-> in_bk[h[2]]]
        IN /\ Len(out.conflicts) = Cardinality(hits)
           /\ \A h \in hits : Count(out.conflicts, PairOf(h)) = 1
           /\ \A k \in 1..Len(out.conflicts) : \E h \in hits : out.conflicts[k] = PairOf(h)

\* One Airbnb booking overlaps two Booking.com bookings and is in two
\* conflicts.
C9_Witness ==
    /\ ppc = "done"
    /\ Len(in_bk) = 2
    /\ Len(out.conflicts) >= 2
    /\ out.conflicts[1].airbnb = out.conflicts[2].airbnb
    /\ out.conflicts[1].booking # out.conflicts[2].booking

\* C10: two ranges of which one ends the day the other starts are not
\* overlapping for dates_overlap, in either argument order, and the pair is
\* neither a conflict nor the subject of a double-booking alert.
C10_AdjacentNeverOverlap ==
    \A a \in Range(in_ab), b \in Range(in_bk) :
        (a.end = b.start \/ b.end = a.start) =>
            /\ ~dates_overlap(a.start, a.end, b.start, b.end)
            /\ ~dates_overlap(b.start, b.end, a.start, a.end)
            /\ ppc = "done" =>
                  /\ [airbnb |-> a, booking |-> b] \notin Range(out.conflicts)
                  /\ \A k \in 1..Len(out.doubles) :
                        ~(out.doubles[k].airbnb = a /\ out.doubles[k].booking = b)

\* Two proper ranges are adjacent, and another pair of the same lists is a
\* conflict.
C10_Witness ==
    /\ ppc = "done"
    /\ \E a \in Range(in_ab), b \in Range(in_bk) :
          a.start < a.end /\ a.end = b.start /\ b.start < b.end
    /\ Len(out.conflicts) >= 1
    /\ Len(out.doubles) >= 1

\* C11: two bookings with identical date ranges, whatever range a feed
\* delivered (fetch_ical takes any VEVENT that has a DTSTART and a DTEND),
\* overlap for dates_overlap and are a conflict of find_conflicts.
C11_IdenticalRangesOverlap ==
    ppc = "done" =>
        \A a \in Range(in_ab), b \in Range(in_bk) :
            (a.start = b.start /\ a.end = b.end) =>
                /\ dates_overlap(a.start, a.end, b.start, b.end)
                /\ [airbnb |-> a, booking |-> b] \in Range(out.conflicts)

\* The messages of one kind and platform among those handed to the notifiers.
Notified(kind, platform) ==
    LET Is(m) == m.kind = kind /\ m.platform = platform IN SelectSeq(notified, Is)

\* The uid list the `state` argument holds for a platform ([] when the
\* apartment has no record), and the list fetch_ical returned for it.
StoredUids(platform) ==
    LET prev == Prev(apt_state, APARTMENTS[1])
    IN IF platform = "Airbnb" THEN prev.airbnb_uids ELSE prev.booking_uids

FetchedList(platform) ==
    IF platform = "Airbnb" THEN fetched.ab.bookings ELSE fetched.bk.bookings

\* C12: a cycle sends, for each platform, exactly one cancellation alert
\* per uid that is in the stored uid list of that platform and is the uid
\* of no booking of the current fetch, no cancellation alert for any other
\* uid, and no new-booking alert for a booking whose uid is in the stored
\* list.
C12_CancellationsExact ==
    dpc = "done" =>
        \A p \in Platforms :
            LET before == Range(StoredUids(p))
                now == Range(Uids(FetchedList(p)))
                cancels == Notified("cancel", p)
                news == Notified("new", p)
            IN /\ Len(cancels) = Cardinality(before \ now)
               /\ \A u \in before \ now :
                     Cardinality({k \in 1..Len(cancels) : cancels[k].uid = u}) = 1
               /\ \A k \in 1..Len(cancels) : cancels[k].uid \in before
               /\ \A k \in 1..Len(news) : news[k].uid \notin before

\* Of two stored Airbnb uids one is gone from the fetch and is cancelled,
\* the other is fetched again without an alert, and a third booking is new.
C12_Witness ==
    /\ dpc = "done"
    /\ Len(StoredUids("Airbnb")) = 2
    /\ Len(FetchedList("Airbnb")) = 2
    /\ Len(Notified("cancel", "Airbnb")) = 1
    /\ Len(Notified("new", "Airbnb")) = 1
    /\ \E k \in 1..2 : FetchedList("Airbnb")[k].uid \in Range(StoredUids("Airbnb"))

\* C13: the cycle of an apartment with no record in `state` sends no
\* cancellation alert, one new-booking alert per fetched booking of each
\* platform, in order, and double-booking alerts only for pairs of one
\* fetched Airbnb and one fetched Booking.com booking that overlap.
C13_FirstCycle ==
    (dpc = "done" /\ APARTMENTS[1] \notin DOMAIN apt_state) =>
        /\ \A p \in Platforms :
              /\ Notified("cancel", p) = <<>>
              /\ Len(Notified("new", p)) = Len(FetchedList(p))
              /\ \A k \in 1..Len(FetchedList(p)) :
                    Notified("new", p)[k].uid = FetchedList(p)[k].uid
        /\ \A k \in 1..Len(notified) :
              notified[k].kind = "double" =>
                  /\ notified[k].airbnb \in Range(fetched.ab.bookings)
                  /\ notified[k].booking \in Range(fetched.bk.bookings)
                  /\ notified[k].airbnb.start < notified[k].booking.end
                  /\ notified[k].booking.start < notified[k].airbnb.end

\* A first cycle that fetched two Airbnb bookings and one Booking.com
\* booking, of which one pair overlaps and the other does not: three
\* new-booking alerts and one double-booking alert.
C13_Witness ==
    /\ dpc = "done"
    /\ APARTMENTS[1] \notin DOMAIN apt_state
    /\ Len(fetched.ab.bookings) = 2
    /\ Len(fetched.bk.bookings) = 1
    /\ Len(find_conflicts(fetched.ab.bookings, fetched.bk.bookings)) = 1
    /\ Len(Notified("new", "Airbnb")) = 2
    /\ Len(Notified("new", "Booking.com")) = 1
    /\ Cardinality({k \in 1..Len(notified) : notified[k].kind = "double"}) = 1

\* The start dates of the bookings without uid in a list.
UidlessStarts(list) == {list[k].start : k \in {j \in 1..Len(list) : list[j].uid = ""}}

\* C14: a booking without uid is identified by its start date.  So the
\* cycle sends one new-booking alert per uid-less Airbnb booking it fetched
\* whose start date no uid-less booking of the previous fetch had, and one
\* cancellation alert per start date of a uid-less booking of the previous
\* fetch that no uid-less booking of this fetch has.
C14_UidlessIdentity ==
    dpc = "done" =>
        LET cur == fetched.ab.bookings
            old == prior_fetch.ab
            fresh == {k \in 1..Len(cur) : cur[k].uid = "" /\ cur[k].start \notin UidlessStarts(old)}
            gone == UidlessStarts(old) \ UidlessStarts(cur)
            IsUidless(m) == m.uid = ""
        IN /\ Len(SelectSeq(Notified("new", "Airbnb"), IsUidless)) = Cardinality(fresh)
           /\ Len(SelectSeq(Notified("cancel", "Airbnb"), IsUidless)) = Cardinality(gone)

\* C15: the key of a conflict identifies its pair of uids: a conflict of
\* this cycle and a conflict of the cycle that wrote the stored snapshot
\* with different (Airbnb uid, Booking.com uid) pairs have different keys,
\* so that a conflict of this cycle whose pair of uids was in no conflict
\* of that cycle gets its double-booking alert.
C15_ConflictKeyUnique ==
    dpc = "done" =>
        LET now == Range(find_conflicts(fetched.ab.bookings, fetched.bk.bookings))
            before == Range(find_conflicts(prior_fetch.ab, prior_fetch.bk))
        IN /\ \A c \in now, d \in before :
                 UidPair(c) # UidPair(d) => ConflictKey(c) # ConflictKey(d)
           /\ \A c \in now :
                 UidPair(c) \notin {UidPair(d) : d \in before} =>
                     \E k \in 1..Len(notified) :
                         /\ notified[k].kind = "double"
                         /\ notified[k].airbnb = c.airbnb
                         /\ notified[k].booking = c.booking

\* C16: when a fetch_ical call failed, at whatever point, the list the
\* rest of the cycle uses for that platform is empty: the diff sends no
\* new-booking alert for that platform and the returned snapshot holds no
\* uid for it.
C16_FailedFetchIsEmpty ==
    /\ dpc \in {"fetched", "diff", "done", "raised"} =>
          /\ fetched.ab.failed => fetched.ab.bookings = <<>>
          /\ fetched.bk.failed => fetched.bk.bookings = <<>>
    /\ dpc = "done" =>
          /\ fetched.ab.failed =>
                Notified("new", "Airbnb") = <<>> /\ returned[1].airbnb_uids = <<>>
          /\ fetched.bk.failed =>
                Notified("new", "Booking.com") = <<>> /\ returned[1].booking_uids = <<>>

\* The outcome of the fetch_ical call for a platform.
FetchOutcome(platform) == IF platform = "Airbnb" THEN fetched.ab ELSE fetched.bk

\* C17: a cycle in which the fetch of a platform failed and which returned
\* has sent exactly one feed-broken alert for that platform and exactly one
\* cancellation alert per uid the stored snapshot holds for that platform,
\* and returns a snapshot with no uid for that platform.
C17_FailedFetchAlerts ==
    dpc = "done" =>
        \A p \in Platforms :
            FetchOutcome(p).failed =>
                LET cancels == Notified("cancel", p)
                    before == Range(StoredUids(p))
                    uids == IF p = "Airbnb" THEN returned[1].airbnb_uids
                            ELSE returned[1].booking_uids
                IN /\ Len(Notified("broken", p)) = 1
                   /\ Len(cancels) = Cardinality(before)
                   /\ \A u \in before :
                         Cardinality({k \in 1..Len(cancels) : cancels[k].uid = u}) = 1
                   /\ uids = <<>>

\* What the events of one run for the list `bookings` show, each with the
\* number of bookings giving it.
TargetShown(bookings) ==
    LET ks == 1..Len(bookings)
    IN {<<x, Cardinality({k \in ks : EventBody(bookings[k]) = x})>> :
            x \in {EventBody(bookings[k]) : k \in ks}}

\* C18: when sync_to_google_calendar has got through all its calls, the
\* events of the calendar whose summary ends with the tag are exactly one
\* per booking of all_bookings, showing its start, its end and its summary
\* with the tag, whatever the calendar held before; and a second complete
\* run with the same list leaves the same tagged events as the first.
C18_FullReplace ==
    mpc = "done" =>
        /\ VisibleTagged(calendar) = TargetShown(all_bookings)
        /\ prev_visible # <<>> => VisibleTagged(calendar) = prev_visible[1]

\* The second of two complete runs for two bookings, on a calendar that
\* held a stale tagged event and a foreign event before the first.
C18_Witness ==
    /\ mpc = "done"
    /\ runs = 2
    /\ prev_visible # <<>>
    /\ Len(all_bookings) = 2
    /\ n_deletes = 2
    /\ n_inserts = 2
    /\ \E e \in original : e.summary = <<"Old", " ", "[SW]">>
    /\ \E e \in original : e.summary = <<"Dentist">>

\* C19: no run deletes an event whose summary does not end with the tag:
\* every such event the calendar held before the first run is still there.
C19_ForeignNeverDeleted ==
    \A e \in original : e.summary[Len(e.summary)] # "[SW]" => e \in calendar

\* C20: a run that got through all its calls has made exactly one insert
\* call per element of T that is not in E and one delete call per element
\* of E that is not in T, where E is what the events show in which the
\* run finds the tag, of the calendar as it was when the run started, and
\* T what the events of all_bookings show (start, end and summary): none
\* at all when E = T.  Stated for lists and calendars in which no two
\* elements show the same, so that calls and elements count alike.
C20_IncrementalCalls ==
    LET owned == {x \in existing : IsOwned(x.summary)}
        E == {Shown(e) : e \in owned}
        T == {EventBody(all_bookings[k]) : k \in 1..Len(all_bookings)}
    IN (/\ mpc = "done"
        /\ Cardinality(E) = Cardinality(owned)
        /\ Cardinality(T) = Len(all_bookings)) =>
            /\ n_inserts = Cardinality(T \ E)
            /\ n_deletes = Cardinality(E \ T)

\* C21: a sync_to_google_calendar call that gave up (a list, delete or
\* insert call raised, or there was no service) never aborts the cycle,
\* and a cycle with such a call that has returned has sent the alerts and
\* returned the snapshot that its fetched lists and the stored snapshot
\* give, as a cycle does whose calendar calls all went through.
C21_MirrorFailureDoesNotBlock ==
    /\ dpc = "raised" => mirror_ends = <<>>
    /\ (dpc = "done" /\ \E k \in 1..Len(mirror_ends) : mirror_ends[k] # "done") =>
          LET la == fetched.ab.bookings
              lb == fetched.bk.bookings
          IN /\ notified = BrokenAlerts("Airbnb", fetched.ab)
                           \o BrokenAlerts("Booking.com", fetched.bk)
                           \o CycleAlerts(la, lb, Prev(apt_state, APARTMENTS[1]))
             /\ returned = <<Snapshot(la, lb, find_conflicts(la, lb))>>

\* A cycle has returned after its first mirror run found no service and
\* its second had a calendar call raise; it sent the alerts for a new
\* booking on each platform and for their double booking.
C21_Witness ==
    /\ dpc = "done"
    /\ mirror_ends = <<"no_service", "failed">>
    /\ Len(notified) = 3
    /\ notified[3].kind = "double"
    /\ returned[1].known_conflicts # <<>>

\* C22: in a cycle no Mirror Calendar write (delete or insert) is made
\* before the diff against the stored snapshot is computed, and no alert
\* is handed to a channel before both mirror runs have ended.
C22_PhaseOrder ==
    /\ (mpc # "idle" /\ n_deletes + n_inserts > 0) => dpc \in {"diff", "done"}
    /\ (dpc \notin {"idle", "raised"} /\ attempts # <<>>) => Len(mirror_ends) = 2

\* C23: every message the cycle has emitted, of whatever kind, has been
\* attempted on every configured channel, whether or not a delivery
\* before it failed.
C23_EveryChannelAttempted ==
    \A k \in 1..Len(notified) :
        /\ notifiers.telegram =>
              \E x \in 1..Len(attempts) : attempts[x].k = k /\ attempts[x].channel = "telegram"
        /\ notifiers.email =>
              \E x \in 1..Len(attempts) : attempts[x].k = k /\ attempts[x].channel = "email"

\* C24: every answered GET of an artifact file carries a complete
\* document: all of its pieces, of one writing, with the announced size.
C24_ReadsComplete ==
    (rpc = "idle" /\ rfile \in {"for_booking", "for_airbnb"} /\ response.status = 200) =>
        /\ response.body.len = DocLen
        /\ response.size = DocLen

====
